---- MODULE Spec2Model ----
(***************************************************************************)
(* taskctl: a background-task supervisor (src/taskctl/taskctl.py).         *)
(*                                                                         *)
(* Every invocation of the tool (run, stop, rename, clear, list, info) and *)
(* every completion callback fired by a spawned wrapper is a short process *)
(* that works on the shared state directory.  The model keeps the state    *)
(* directory (one record file and one log file per task name), the spawned *)
(* wrapper processes, the frames of the invocations in flight and the      *)
(* wall clock.  One step of an invocation is one system call (or a run of  *)
(* local statements around one), so that invocations interleave the way    *)
(* independent operating-system processes do.                              *)
(***************************************************************************)
EXTENDS Integers, Sequences, FiniteSets, TLC

\* ------------------------------------------------------------------ bounds
MaxOps == 3
MaxProcs == 2
MaxTime == 1
MaxConc == 2

Names == {"a", "b"}
Cmds == {"c1"}
ExitCodes == {0, 1}
Pids == 1..MaxProcs
Invs == 1..MaxOps

\* "%f" of the time format: microseconds, six digits
UsecPerSec == 1000000

\* ------------------------------------------------------------- record store
None == <<>>
Some(x) == <<x>>

RUNNING == "running"
DONE == "done"
STOPPED == "stopped"

\* datetime.strftime("%Y-%m-%d %H:%M:%S.%f"): seconds and microseconds apart
Strftime(t) == <<t \div UsecPerSec, t % UsecPerSec>>
\* datetime.strptime(s, "%Y-%m-%d %H:%M:%S.%f")
Strptime(s) == s[1] * UsecPerSec + s[2]

\* what a path of the state directory holds: nothing, a file that does not
\* parse (truncated by open("w"), or overlaid by two writers), or a record
NoFile ==
  [kind |-> "absent", cmd |-> "", cmd_name |-> "", pid |-> 0, start_time |-> None,
   duration |-> None, end_time |-> None, status |-> "", exit_code |-> None]
PartialFile == [NoFile EXCEPT !.kind = "partial"]

TaskInfo(cmd, cmd_name, pid, start_time) ==
  [kind |-> "json", cmd |-> cmd, cmd_name |-> cmd_name, pid |-> pid,
   start_time |-> start_time, duration |-> None, end_time |-> None,
   status |-> RUNNING, exit_code |-> None]

\* a stop that leaves the duration out
StopRecordNoDuration(rec, t) ==
  [rec EXCEPT !.status = STOPPED, !.end_time = Some(Strftime(t))]

\* stop, lines 143-145
StopRecord(rec, t) ==
  [rec EXCEPT !.status = STOPPED,
              !.end_time = Some(Strftime(t)),
              !.duration = Some(Strptime(Strftime(t)) - Strptime(rec.start_time))]

\* a callback that subtracts the wrong way round
CallbackRecordBackwards(rec, code, t) ==
  [rec EXCEPT !.exit_code = Some(code),
              !.end_time = Some(Strftime(t)),
              !.duration = Some(Strptime(rec.start_time) - Strptime(Strftime(t))),
              !.status = DONE]

\* callback, lines 247-250
CallbackRecord(rec, code, t) ==
  [rec EXCEPT !.exit_code = Some(code),
              !.end_time = Some(Strftime(t)),
              !.duration = Some(Strptime(Strftime(t)) - Strptime(rec.start_time)),
              !.status = DONE]

\* a rename that builds the record anew under the new name
RenameRecordFresh(rec, new_name) == TaskInfo(rec.cmd, new_name, rec.pid, rec.start_time)

\* rename, line 274
RenameRecord(rec, new_name) == [rec EXCEPT !.cmd_name = new_name]

\* --------------------------------------------------------------- the state
VARIABLES
  info,   \* info[n]: the record file LOG_DIR/n.info.json
  log,    \* log[n]: the log file LOG_DIR/n.log: 0 absent, else the pid that made it
  proc,   \* proc[p]: the wrapper process p and the callback it runs
  inv,    \* inv[k]: the k-th invocation of the tool by the user
  now,    \* the wall clock, in microseconds, as of its last reading
  quiet   \* history: no stop, rename or clear has been invoked so far

vars == <<info, log, proc, inv, now, quiet>>

NoProc ==
  [st |-> "none", name |-> "", code |-> 0, pc |-> "", rec |-> NoFile, fd |-> "",
   out |-> ""]

NoInv ==
  [op |-> "none", pc |-> "", name |-> "", new |-> "", cmd |-> "", rec |-> NoFile,
   pre |-> NoFile, prelog |-> 0, t0 |-> 0, pid |-> 0, tasks |-> {}, fd |-> "",
   out |-> "", names |-> <<>>, shown |-> {}]

Init ==
  /\ info = [n \in Names |-> NoFile]
  /\ log = [n \in Names |-> 0]
  /\ proc = [p \in Pids |-> NoProc]
  /\ inv = [k \in Invs |-> NoInv]
  /\ now = 0
  /\ quiet = TRUE

\* ------------------------------------------------------ processes and files
\* is_pid_running: os.kill(pid, 0) succeeds while the wrapper is in the process
\* table: running the command, running the callback, or about to exit.  The
\* launcher does not stay around as the wrapper's parent (no watch mode), so an
\* exited wrapper is reaped at once; pids are handed out once and not reused.
is_pid_running(pid) == pid \in Pids /\ proc[pid].st \in {"cmd", "cb", "post"}

\* an open file descriptor follows its file: unlink detaches it from the name
Detach(f, n) ==
  [x \in DOMAIN f |-> IF f[x].fd = n THEN [f[x] EXCEPT !.fd = ""] ELSE f[x]]

\* rename(2) of old onto new: descriptors of old now write to new, descriptors
\* of the file that new named before are detached
Retarget(f, old, new) ==
  [x \in DOMAIN f |->
     IF f[x].fd = new THEN [f[x] EXCEPT !.fd = ""]
     ELSE IF f[x].fd = old THEN [f[x] EXCEPT !.fd = new]
     ELSE f[x]]

\* the outcomes of flushing rec through a descriptor opened with "w": the record
\* as written, or, when another writer has written to the same file since this
\* writer truncated it, possibly an overlay of the two that does not parse
Flushed(fd, rec) ==
  IF fd = "" THEN {}
  ELSE IF info[fd].kind = "json" THEN {rec, PartialFile}
  ELSE {rec}

\* an invocation returns or dies of an exception: its frame is dropped, what it
\* reports stays until the process has exited
Finish(r, out) ==
  [r EXCEPT !.pc = "exit", !.out = out, !.rec = NoFile, !.pre = NoFile,
            !.prelog = 0, !.tasks = {}, !.fd = "", !.t0 = 0]

DoneInv == [NoInv EXCEPT !.op = "done"]

Active(k) == inv[k].op \notin {"none", "done"}

\* the clock never goes backwards; it is observed only where it is read
Clock == now..MaxTime

\* invocations are numbered in the order they start
\* the processes at work on the state directory at one time: the invocations
\* in flight and the wrappers whose command has exited
Running ==
  Cardinality({j \in Invs : Active(j)})
    + Cardinality({p \in Pids : proc[p].st \in {"cb", "post"}})

CanStart(k) ==
  /\ inv[k].op = "none"
  /\ Running < MaxConc
  /\ IF k = 1 THEN TRUE ELSE inv[k - 1].op # "none"

\* -------------------------------------------------------------------- run
\* lines 63-68: now, the paths, info_file.exists()
RunBegin(k, cmd, n) ==
  /\ CanStart(k)
  /\ Cardinality({p \in Pids : proc[p].st = "none"})
       > Cardinality({j \in Invs : inv[j].op = "run" /\ inv[j].pid = 0 /\ inv[j].pc # "exit"})
  /\ \E t \in Clock :
       /\ now' = t
       /\ inv' = [inv EXCEPT ![k] =
            [NoInv EXCEPT !.op = "run", !.name = n, !.cmd = cmd, !.t0 = t,
                          !.pc = IF info[n].kind # "absent" THEN "r_read"
                                 ELSE "r_unlink_info"]]
  /\ UNCHANGED <<info, log, proc, quiet>>

\* lines 69-70: open and json.load
RunRead(k) ==
  /\ inv[k].op = "run" /\ inv[k].pc = "r_read"
  /\ LET n == inv[k].name IN
     inv' = [inv EXCEPT ![k] =
       IF info[n].kind = "absent" THEN Finish(@, "FileNotFoundError")
       ELSE IF info[n].kind = "partial" THEN Finish(@, "JSONDecodeError")
       ELSE [@ EXCEPT !.rec = info[n], !.pc = "r_check"]]
  /\ UNCHANGED <<info, log, proc, now, quiet>>

\* a duplicate check that trusts the status of the record
RunCheckNoLiveness(k) ==
  /\ inv[k].op = "run" /\ inv[k].pc = "r_check"
  /\ inv' = [inv EXCEPT ![k] =
       IF @.rec.status = RUNNING
       THEN Finish(@, "DuplicateTask")
       ELSE [@ EXCEPT !.rec = NoFile, !.pc = "r_unlink_info"]]
  /\ UNCHANGED <<info, log, proc, now, quiet>>

\* lines 71-75: the duplicate check
RunCheck(k) ==
  /\ inv[k].op = "run" /\ inv[k].pc = "r_check"
  /\ inv' = [inv EXCEPT ![k] =
       IF @.rec.status = RUNNING /\ is_pid_running(@.rec.pid)
       THEN Finish(@, "DuplicateTask")
       ELSE [@ EXCEPT !.rec = NoFile, !.pc = "r_unlink_info"]]
  /\ UNCHANGED <<info, log, proc, now, quiet>>

\* line 76: info_file.unlink(missing_ok=True)
RunUnlinkInfo(k) ==
  /\ inv[k].op = "run" /\ inv[k].pc = "r_unlink_info"
  /\ LET n == inv[k].name IN
     /\ info' = [info EXCEPT ![n] = NoFile]
     /\ inv' = [Detach(inv, n) EXCEPT ![k].pc = "r_unlink_log"]
     /\ proc' = Detach(proc, n)
  /\ UNCHANGED <<log, now, quiet>>

\* line 77: log_file.unlink(missing_ok=True)
RunUnlinkLog(k) ==
  /\ inv[k].op = "run" /\ inv[k].pc = "r_unlink_log"
  /\ log' = [log EXCEPT ![inv[k].name] = 0]
  /\ inv' = [inv EXCEPT ![k].pc = "r_spawn"]
  /\ UNCHANGED <<info, proc, now, quiet>>

\* the pid the operating system hands out: one never used before
FreshPid == CHOOSE p \in Pids : proc[p].st = "none" /\ \A q \in Pids : q < p => proc[q].st # "none"

\* lines 79-91: log_file.open("a") and Popen of the wrapper in its own session
RunSpawn(k) ==
  /\ inv[k].op = "run" /\ inv[k].pc = "r_spawn"
  /\ \E p \in Pids : proc[p].st = "none"
  /\ LET n == inv[k].name
         p == FreshPid IN
     /\ log' = [log EXCEPT ![n] = IF @ = 0 THEN p ELSE @]
     /\ proc' = [proc EXCEPT ![p] = [NoProc EXCEPT !.st = "cmd", !.name = n]]
     /\ inv' = [inv EXCEPT ![k].pid = p, ![k].pc = "r_trunc"]
  /\ UNCHANGED <<info, now, quiet>>

\* line 98, write_text: open("w") creates or truncates the file
RunTrunc(k) ==
  /\ inv[k].op = "run" /\ inv[k].pc = "r_trunc"
  /\ LET n == inv[k].name IN
     /\ info' = [info EXCEPT ![n] = PartialFile]
     /\ inv' = [inv EXCEPT ![k].fd = n, ![k].pc = "r_write"]
  /\ UNCHANGED <<log, proc, now, quiet>>

\* line 98, write_text: the record is written and the file closed
RunWrite(k) ==
  /\ inv[k].op = "run" /\ inv[k].pc = "r_write"
  /\ LET r == inv[k]
         rec == TaskInfo(r.cmd, r.name, r.pid, Strftime(r.t0)) IN
     /\ IF r.fd = "" THEN info' = info
        ELSE \E c \in Flushed(r.fd, rec) : info' = [info EXCEPT ![r.fd] = c]
     /\ inv' = [inv EXCEPT ![k] = Finish(@, "ok")]
  /\ UNCHANGED <<log, proc, now, quiet>>

\* ------------------------------------------------------------------- stop
\* lines 132-135: info_file.exists()
StopBegin(k, n) ==
  /\ CanStart(k)
  /\ inv' = [inv EXCEPT ![k] =
       IF info[n].kind = "absent"
       THEN Finish([NoInv EXCEPT !.op = "stop", !.name = n], "NotFound")
       ELSE [NoInv EXCEPT !.op = "stop", !.name = n, !.pc = "s_read"]]
  /\ quiet' = FALSE
  /\ UNCHANGED <<info, log, proc, now>>

\* lines 137-138: open and json.load
StopRead(k) ==
  /\ inv[k].op = "stop" /\ inv[k].pc = "s_read"
  /\ LET n == inv[k].name IN
     inv' = [inv EXCEPT ![k] =
       IF info[n].kind = "absent" THEN Finish(@, "FileNotFoundError")
       ELSE IF info[n].kind = "partial" THEN Finish(@, "JSONDecodeError")
       ELSE [@ EXCEPT !.rec = info[n], !.pc = "s_check"]]
  /\ UNCHANGED <<info, log, proc, now, quiet>>

\* a stop that trusts the status of the record
StopCheckNoLiveness(k) ==
  /\ inv[k].op = "stop" /\ inv[k].pc = "s_check"
  /\ inv' = [inv EXCEPT ![k] =
       IF @.rec.status # RUNNING THEN Finish(@, "NotRunning")
       ELSE [@ EXCEPT !.pc = "s_kill"]]
  /\ UNCHANGED <<info, log, proc, now, quiet>>

\* lines 139-141: the status and the liveness check
StopCheck(k) ==
  /\ inv[k].op = "stop" /\ inv[k].pc = "s_check"
  /\ inv' = [inv EXCEPT ![k] =
       IF @.rec.status # RUNNING \/ ~is_pid_running(@.rec.pid)
       THEN Finish(@, "NotRunning")
       ELSE [@ EXCEPT !.pc = "s_kill"]]
  /\ UNCHANGED <<info, log, proc, now, quiet>>

\* os.kill(pid, SIGTERM): the wrapper alone is signalled
KillWrapperOnly(pid) == [proc EXCEPT ![pid].st = "killed"]

\* os.killpg(os.getpgid(pid), SIGTERM): the wrapper leads its own session
\* (preexec_fn=os.setsid, line 89), so the signal ends the wrapper, the command
\* and a callback the wrapper runs; none of them handles SIGTERM
Killpg(pid) ==
  [proc EXCEPT ![pid] =
     [@ EXCEPT !.st = "killed", !.pc = "", !.rec = NoFile, !.fd = "", !.out = ""]]

\* lines 142-145: getpgid raises ProcessLookupError for a pid that is gone;
\* otherwise the group is signalled and the record updated in memory
StopKill(k) ==
  /\ inv[k].op = "stop" /\ inv[k].pc = "s_kill"
  /\ LET r == inv[k] IN
     IF ~is_pid_running(r.rec.pid)
     THEN /\ inv' = [inv EXCEPT ![k] = Finish(r, "ProcessLookupError")]
          /\ UNCHANGED <<proc, now, quiet>>
     ELSE \E t \in Clock :
          /\ now' = t
          /\ proc' = Killpg(r.rec.pid)
          /\ inv' = [inv EXCEPT ![k] =
               [r EXCEPT !.rec = StopRecord(r.rec, t), !.pid = r.rec.pid,
                         !.pc = "s_trunc"]]
  /\ UNCHANGED <<info, log, quiet>>

\* line 146: open("w") creates or truncates the file
StopTrunc(k) ==
  /\ inv[k].op = "stop" /\ inv[k].pc = "s_trunc"
  /\ LET n == inv[k].name IN
     /\ info' = [info EXCEPT ![n] = PartialFile]
     /\ inv' = [inv EXCEPT ![k].fd = n, ![k].pc = "s_write"]
  /\ UNCHANGED <<log, proc, now, quiet>>

\* line 147: json.dump and close
StopWrite(k) ==
  /\ inv[k].op = "stop" /\ inv[k].pc = "s_write"
  /\ LET r == inv[k] IN
     IF r.fd = "" THEN info' = info
     ELSE \E c \in Flushed(r.fd, r.rec) : info' = [info EXCEPT ![r.fd] = c]
  /\ inv' = [inv EXCEPT ![k] = Finish(@, "ok")]
  /\ UNCHANGED <<log, proc, now, quiet>>

\* ---------------------------------------------------- stop without a name
\* get_running_tasks, lines 103-110: the names the records carry, of the records
\* that are RUNNING with a pid that is running, in the order glob yields the
\* files, which is any order
\* (watch, line 152, makes the same call and then only reads a log; it is not
\* an action here)
get_running_tasks ==
  LET files == {n \in Names : /\ info[n].kind = "json"
                              /\ info[n].status = RUNNING
                              /\ is_pid_running(info[n].pid)} IN
  {[i \in 1..Cardinality(files) |-> info[f[i]].cmd_name] :
     f \in {g \in [1..Cardinality(files) -> files] :
              \A i, j \in 1..Cardinality(files) : i # j => g[i] # g[j]}}

\* what the user types at a prompt: text that int() rejects, or a number
Inputs == {None} \cup {Some(i) : i \in -3..3}

\* cmd_names[index] of Python: a negative index counts from the end, and
\* IndexError (None) outside -len..len-1
PyIndex(seq, index) ==
  IF 0 <= index /\ index < Len(seq) THEN Some(seq[index + 1])
  ELSE IF -Len(seq) <= index /\ index < 0 THEN Some(seq[Len(seq) + index + 1])
  ELSE None

\* lines 113-117 and 129-130: the scan, taken as one look at the directory
\* (json.load raises on a file that does not parse); no task, one task, or the
\* prompt
StopScan(k) ==
  /\ CanStart(k)
  /\ LET r == [NoInv EXCEPT !.op = "stop"] IN
     IF \E n \in Names : info[n].kind = "partial"
     THEN inv' = [inv EXCEPT ![k] = Finish(r, "JSONDecodeError")]
     ELSE \E cmd_names \in get_running_tasks :
          inv' = [inv EXCEPT ![k] =
            IF Len(cmd_names) = 0 THEN Finish(r, "NoRunningTask")
            ELSE IF Len(cmd_names) > 1
            THEN [r EXCEPT !.names = cmd_names, !.pc = "s_choose"]
            ELSE [r EXCEPT !.name = cmd_names[1], !.pc = "s_exists"]]
  /\ quiet' = FALSE
  /\ UNCHANGED <<info, log, proc, now>>

\* lines 118-128: the prompt and the choice
StopChoose(k, choice) ==
  /\ inv[k].op = "stop" /\ inv[k].pc = "s_choose"
  /\ LET picked == IF choice = None THEN None
                   ELSE PyIndex(inv[k].names, choice[1] - 1) IN
     inv' = [inv EXCEPT ![k] =
       IF picked = None THEN Finish([@ EXCEPT !.names = <<>>], "InvalidSelection")
       ELSE [@ EXCEPT !.name = picked[1], !.names = <<>>, !.pc = "s_exists"]]
  /\ UNCHANGED <<info, log, proc, now, quiet>>

\* lines 132-135, for the name the scan or the prompt gave
StopExists(k) ==
  /\ inv[k].op = "stop" /\ inv[k].pc = "s_exists"
  /\ inv' = [inv EXCEPT ![k] =
       IF info[@.name].kind = "absent" THEN Finish(@, "NotFound")
       ELSE [@ EXCEPT !.pc = "s_read"]]
  /\ UNCHANGED <<info, log, proc, now, quiet>>

\* ----------------------------------------------------------------- rename
\* lines 257-264: old_info.exists()
RenameBegin(k, old, new) ==
  /\ CanStart(k)
  /\ LET r == [NoInv EXCEPT !.op = "rename", !.name = old, !.new = new] IN
     inv' = [inv EXCEPT ![k] =
       IF info[old].kind = "absent" THEN Finish(r, "NotFound")
       ELSE [r EXCEPT !.pre = info[old], !.prelog = log[old], !.pc = "n_new"]]
  /\ quiet' = FALSE
  /\ UNCHANGED <<info, log, proc, now>>

\* a rename that does not look at the new name
RenameNoCheckNew(k) ==
  /\ inv[k].op = "rename" /\ inv[k].pc = "n_new"
  /\ inv' = [inv EXCEPT ![k].pc = "n_mvlog"]
  /\ UNCHANGED <<info, log, proc, now, quiet>>

\* lines 265-267: new_info.exists()
RenameCheckNew(k) ==
  /\ inv[k].op = "rename" /\ inv[k].pc = "n_new"
  /\ inv' = [inv EXCEPT ![k] =
       IF info[@.new].kind # "absent" THEN Finish(@, "AlreadyExists")
       ELSE [@ EXCEPT !.pc = "n_mvlog"]]
  /\ UNCHANGED <<info, log, proc, now, quiet>>

\* line 269: old_log.rename(new_log)
RenameLog(k) ==
  /\ inv[k].op = "rename" /\ inv[k].pc = "n_mvlog"
  /\ LET r == inv[k] IN
     IF log[r.name] = 0
     THEN /\ inv' = [inv EXCEPT ![k] = Finish(r, "FileNotFoundError")]
          /\ log' = log
     ELSE /\ log' = IF r.name = r.new THEN log
                    ELSE [log EXCEPT ![r.new] = log[r.name], ![r.name] = 0]
          /\ inv' = [inv EXCEPT ![k].pc = "n_mvinfo"]
  /\ UNCHANGED <<info, proc, now, quiet>>

\* line 270: old_info.rename(new_info)
RenameInfo(k) ==
  /\ inv[k].op = "rename" /\ inv[k].pc = "n_mvinfo"
  /\ LET r == inv[k] IN
     IF info[r.name].kind = "absent"
     THEN /\ inv' = [inv EXCEPT ![k] = Finish(r, "FileNotFoundError")]
          /\ UNCHANGED <<info, proc>>
     ELSE IF r.name = r.new
     THEN /\ inv' = [inv EXCEPT ![k].pc = "n_read"]
          /\ UNCHANGED <<info, proc>>
     ELSE /\ info' = [info EXCEPT ![r.new] = info[r.name], ![r.name] = NoFile]
          /\ inv' = [Retarget(inv, r.name, r.new) EXCEPT ![k].pc = "n_read"]
          /\ proc' = Retarget(proc, r.name, r.new)
  /\ UNCHANGED <<log, now, quiet>>

\* lines 272-274: open, json.load, and the new name
RenameRead(k) ==
  /\ inv[k].op = "rename" /\ inv[k].pc = "n_read"
  /\ LET r == inv[k] IN
     inv' = [inv EXCEPT ![k] =
       IF info[r.new].kind = "absent" THEN Finish(r, "FileNotFoundError")
       ELSE IF info[r.new].kind = "partial" THEN Finish(r, "JSONDecodeError")
       ELSE [r EXCEPT !.rec = RenameRecord(info[r.new], r.new), !.pc = "n_trunc"]]
  /\ UNCHANGED <<info, log, proc, now, quiet>>

\* line 275: open("w") creates or truncates the file
RenameTrunc(k) ==
  /\ inv[k].op = "rename" /\ inv[k].pc = "n_trunc"
  /\ LET n == inv[k].new IN
     /\ info' = [info EXCEPT ![n] = PartialFile]
     /\ inv' = [inv EXCEPT ![k].fd = n, ![k].pc = "n_write"]
  /\ UNCHANGED <<log, proc, now, quiet>>

\* line 276: json.dump and close
RenameWrite(k) ==
  /\ inv[k].op = "rename" /\ inv[k].pc = "n_write"
  /\ LET r == inv[k] IN
     IF r.fd = "" THEN info' = info
     ELSE \E c \in Flushed(r.fd, r.rec) : info' = [info EXCEPT ![r.fd] = c]
  /\ inv' = [inv EXCEPT ![k] = Finish(@, "ok")]
  /\ UNCHANGED <<log, proc, now, quiet>>

\* ------------------------------------------------------------------ clear
\* lines 190-191 and 199-200: the confirmation prompt
ClearBegin(k, confirm) ==
  /\ CanStart(k)
  /\ inv' = [inv EXCEPT ![k] =
       IF confirm = "y" THEN [NoInv EXCEPT !.op = "clear", !.pc = "c_scan"]
       ELSE Finish([NoInv EXCEPT !.op = "clear"], "cancelled")]
  /\ quiet' = FALSE
  /\ UNCHANGED <<info, log, proc, now>>

\* get_stopped_tasks, lines 178-187: the names the records carry, of the
\* records that are STOPPED or DONE or whose pid is not running
get_stopped_tasks ==
  {info[n].cmd_name : n \in {m \in Names :
      /\ info[m].kind = "json"
      /\ info[m].status \in {STOPPED, DONE} \/ ~is_pid_running(info[m].pid)}}

\* line 192: the scan, taken as one look at the directory; json.load raises on
\* a file that does not parse
ClearScan(k) ==
  /\ inv[k].op = "clear" /\ inv[k].pc = "c_scan"
  /\ inv' = [inv EXCEPT ![k] =
       IF \E n \in Names : info[n].kind = "partial"
       THEN Finish(@, "JSONDecodeError")
       ELSE IF get_stopped_tasks = {} THEN Finish(@, "ok")
       ELSE [@ EXCEPT !.tasks = get_stopped_tasks, !.pc = "c_del"]]
  /\ UNCHANGED <<info, log, proc, now, quiet>>

\* lines 193-197: one turn of the loop, both unlinks of one task
ClearDelete(k, n) ==
  /\ inv[k].op = "clear" /\ inv[k].pc = "c_del"
  /\ n \in inv[k].tasks
  /\ log' = [log EXCEPT ![n] = 0]
  /\ info' = [info EXCEPT ![n] = NoFile]
  /\ proc' = Detach(proc, n)
  /\ LET rest == inv[k].tasks \ {n}
         d == Detach(inv, n) IN
     inv' = [d EXCEPT ![k] =
       IF rest = {} THEN Finish(d[k], "ok") ELSE [d[k] EXCEPT !.tasks = rest]]
  /\ UNCHANGED <<now, quiet>>

\* ---------------------------------------------------------- list and info
\* what list and info print of a record; of the columns, the name, the status
\* and the pid are kept
Row(rec) == <<rec.cmd_name, rec.status, rec.pid>>

\* list_, lines 202-218: the scan, taken as one look at the directory, and the
\* table; json.load raises on a file that does not parse
List(k) ==
  /\ CanStart(k)
  /\ LET r == [NoInv EXCEPT !.op = "list"] IN
     inv' = [inv EXCEPT ![k] =
       IF \E n \in Names : info[n].kind = "partial" THEN Finish(r, "JSONDecodeError")
       ELSE Finish([r EXCEPT !.shown = {Row(info[n]) : n \in {m \in Names : info[m].kind = "json"}}],
                   "ok")]
  /\ UNCHANGED <<info, log, proc, now, quiet>>

\* info, lines 221-224: info_file.exists()
InfoBegin(k, n) ==
  /\ CanStart(k)
  /\ LET r == [NoInv EXCEPT !.op = "info", !.name = n] IN
     inv' = [inv EXCEPT ![k] =
       IF info[n].kind = "absent" THEN Finish(r, "NotFound")
       ELSE [r EXCEPT !.pc = "i_read"]]
  /\ UNCHANGED <<info, log, proc, now, quiet>>

\* info, lines 226-236: open, json.load, and the fields as they are stored
InfoRead(k) ==
  /\ inv[k].op = "info" /\ inv[k].pc = "i_read"
  /\ LET n == inv[k].name IN
     inv' = [inv EXCEPT ![k] =
       IF info[n].kind = "absent" THEN Finish(@, "FileNotFoundError")
       ELSE IF info[n].kind = "partial" THEN Finish(@, "JSONDecodeError")
       ELSE Finish([@ EXCEPT !.shown = {Row(info[n])}], "ok")]
  /\ UNCHANGED <<info, log, proc, now, quiet>>

\* ------------------------------------------------- the wrapper and callback
\* lines 80-82: the command exits with its code and the wrapper starts callback
CmdExit(p, c) ==
  /\ proc[p].st = "cmd"
  /\ Running < MaxConc
  /\ proc' = [proc EXCEPT ![p].st = "cb", ![p].code = c, ![p].pc = "cb_exists"]
  /\ UNCHANGED <<info, log, inv, now, quiet>>

\* the callback returns (or dies of an exception): the wrapper goes on to exit
CbReturn(r, out) ==
  [r EXCEPT !.st = IF @ = "cb" THEN "post" ELSE @,
            !.pc = "", !.rec = NoFile, !.fd = "", !.out = out]

\* a callback that opens the record without looking for it first
CallbackNoExists(p) ==
  /\ proc[p].pc = "cb_exists"
  /\ proc' = [proc EXCEPT ![p].pc = "cb_read"]
  /\ UNCHANGED <<info, log, inv, now, quiet>>

\* lines 239-242
CallbackExists(p) ==
  /\ proc[p].pc = "cb_exists"
  /\ proc' = [proc EXCEPT ![p] =
       IF info[@.name].kind = "absent" THEN CbReturn(@, "RecordMissing")
       ELSE [@ EXCEPT !.pc = "cb_read"]]
  /\ UNCHANGED <<info, log, inv, now, quiet>>

\* lines 244-250: open, json.load, and the new field values
CallbackRead(p) ==
  /\ proc[p].pc = "cb_read"
  /\ LET r == proc[p] IN
     IF info[r.name].kind = "absent"
     THEN proc' = [proc EXCEPT ![p] = CbReturn(r, "FileNotFoundError")] /\ now' = now
     ELSE IF info[r.name].kind = "partial"
     THEN proc' = [proc EXCEPT ![p] = CbReturn(r, "JSONDecodeError")] /\ now' = now
     ELSE \E t \in Clock :
          /\ now' = t
          /\ proc' = [proc EXCEPT ![p] =
               [r EXCEPT !.rec = CallbackRecord(info[r.name], r.code, t),
                         !.pc = "cb_trunc"]]
  /\ UNCHANGED <<info, log, inv, quiet>>

\* line 253: open("w") creates or truncates the file
CallbackTrunc(p) ==
  /\ proc[p].pc = "cb_trunc"
  /\ info' = [info EXCEPT ![proc[p].name] = PartialFile]
  /\ proc' = [proc EXCEPT ![p].fd = proc[p].name, ![p].pc = "cb_write"]
  /\ UNCHANGED <<log, inv, now, quiet>>

\* line 254: json.dump and close
CallbackWrite(p) ==
  /\ proc[p].pc = "cb_write"
  /\ LET r == proc[p] IN
     IF r.fd = "" THEN info' = info
     ELSE \E c \in Flushed(r.fd, r.rec) : info' = [info EXCEPT ![r.fd] = c]
  /\ proc' = [proc EXCEPT ![p] = CbReturn(@, "ok")]
  /\ UNCHANGED <<log, inv, now, quiet>>

\* line 83: exit $EXIT_CODE, the wrapper leaves the process table
WrapperExit(p) ==
  /\ proc[p].st = "post"
  /\ proc' = [proc EXCEPT ![p].st = "exited", ![p].out = ""]
  /\ UNCHANGED <<info, log, inv, now, quiet>>

\* the process of an invocation exits
Exit(k) ==
  /\ Active(k) /\ inv[k].pc = "exit"
  /\ inv' = [inv EXCEPT ![k] = DoneInv]
  /\ UNCHANGED <<info, log, proc, now, quiet>>

Next ==
  \/ \E k \in Invs :
       \/ \E cmd \in Cmds, n \in Names : RunBegin(k, cmd, n)
       \/ RunRead(k)
       \/ RunCheck(k)
       \/ RunUnlinkInfo(k)
       \/ RunUnlinkLog(k)
       \/ RunSpawn(k)
       \/ RunTrunc(k)
       \/ RunWrite(k)
       \/ \E n \in Names : StopBegin(k, n)
       \/ StopRead(k)
       \/ StopCheck(k)
       \/ StopKill(k)
       \/ StopTrunc(k)
       \/ StopWrite(k)
       \/ StopScan(k)
       \/ \E choice \in Inputs : StopChoose(k, choice)
       \/ StopExists(k)
       \/ \E old \in Names, new \in Names : RenameBegin(k, old, new)
       \/ RenameCheckNew(k)
       \/ RenameLog(k)
       \/ RenameInfo(k)
       \/ RenameRead(k)
       \/ RenameTrunc(k)
       \/ RenameWrite(k)
       \/ \E confirm \in {"y", "N"} : ClearBegin(k, confirm)
       \/ ClearScan(k)
       \/ \E n \in Names : ClearDelete(k, n)
       \/ List(k)
       \/ \E n \in Names : InfoBegin(k, n)
       \/ InfoRead(k)
       \/ Exit(k)
  \/ \E p \in Pids :
       \/ \E c \in ExitCodes : CmdExit(p, c)
       \/ CallbackExists(p)
       \/ CallbackRead(p)
       \/ CallbackTrunc(p)
       \/ CallbackWrite(p)
       \/ WrapperExit(p)

Spec == Init /\ [][Next]_vars

\* the tool used from one terminal: an invocation runs from start to exit with
\* no other invocation and no callback running beside it
SeqNext == Running <= 1 /\ Next /\ Running' <= 1

SeqSpec == Init /\ [][SeqNext]_vars
\* ------------------------------------------------------------- the claims
IsRecord(n) == info[n].kind = "json"

\* who takes the step: an invocation or a callback moves its own pc
StepOf(k) == Active(k) /\ inv'[k].pc # inv[k].pc
StepOfCallback(p) == proc[p].pc # "" /\ proc'[p].pc # proc[p].pc

Quiescent ==
  /\ \A k \in Invs : ~Active(k)
  /\ \A p \in Pids : proc[p].st \in {"none", "exited", "killed"} /\ proc[p].pc = ""

\* C1: when all is done and no stop, rename or clear was invoked, every task
\* whose command exited on its own with code c, and whose name was launched
\* once, has a record with status DONE and exit_code c.
C1_CompletionRecorded ==
  (Quiescent /\ quiet) =>
    \A p \in Pids :
      (proc[p].st = "exited" /\ \A q \in Pids \ {p} : proc[q].name # proc[p].name)
        => /\ IsRecord(proc[p].name)
           /\ info[proc[p].name].status = DONE
           /\ info[proc[p].name].exit_code = Some(proc[p].code)

\* C2: of two run invocations of one name that are in flight together, at most
\* one has spawned a process.
C2_OneLaunchPerName ==
  \A j \in Invs, k \in Invs :
    (j # k /\ inv[j].op = "run" /\ inv[k].op = "run" /\ inv[j].name = inv[k].name
       /\ inv[j].pc # "exit" /\ inv[k].pc # "exit")
      => ~(inv[j].pid # 0 /\ inv[k].pid # 0)

\* C3: no step of a stop or of a callback touches the file of a record whose
\* status is DONE or STOPPED.
C3_TerminalStays ==
  [][\A n \in Names :
       (IsRecord(n) /\ info[n].status \in {DONE, STOPPED} /\ info'[n] # info[n])
         => /\ \A k \in Invs : inv[k].op = "stop" => ~StepOf(k)
            /\ \A p \in Pids : ~StepOfCallback(p)]_vars

\* C4: a RUNNING record has no end_time, duration or exit_code; a DONE record
\* has all three; a STOPPED record has end_time and duration and no exit_code.
C4_RecordFields ==
  \A n \in Names : IsRecord(n) =>
    /\ info[n].status \in {RUNNING, DONE, STOPPED}
    /\ info[n].status = RUNNING =>
         info[n].end_time = None /\ info[n].duration = None /\ info[n].exit_code = None
    /\ info[n].status = DONE =>
         info[n].end_time # None /\ info[n].duration # None /\ info[n].exit_code # None
    /\ info[n].status = STOPPED =>
         info[n].end_time # None /\ info[n].duration # None /\ info[n].exit_code = None

C4_Witness ==
  /\ Quiescent
  /\ \E n \in Names : IsRecord(n) /\ info[n].status = STOPPED /\ info[n].duration # None

\* C5: no invocation and no callback ever reads a record file that is empty or
\* partially written.
C5_NoTornRead ==
  /\ \A k \in Invs : inv[k].out # "JSONDecodeError"
  /\ \A p \in Pids : proc[p].out # "JSONDecodeError"
\* C6: a stop whose record is not RUNNING, or is RUNNING with a pid that fails
\* the liveness check, reports NotRunning, signals no process and leaves every
\* record and log as it is; a stop that reports NotRunning has sent no signal.
C6_StopNotRunning ==
  [][\A k \in Invs :
       /\ (inv[k].op = "stop" /\ inv[k].pc = "s_check" /\ StepOf(k)
             /\ (inv[k].rec.status # RUNNING \/ ~is_pid_running(inv[k].rec.pid)))
            => /\ inv'[k].pc = "exit" /\ inv'[k].out = "NotRunning"
               /\ UNCHANGED <<info, log, proc>>
       /\ (inv'[k].op = "stop" /\ inv'[k].out = "NotRunning") => inv'[k].pid = 0]_vars

C6_Witness ==
  \E k \in Invs :
    /\ inv[k].op = "stop" /\ inv[k].out = "NotRunning"
    /\ IsRecord(inv[k].name) /\ info[inv[k].name].status = RUNNING

\* C7: a stop whose record is RUNNING with a live pid ends the whole process
\* group of that pid (wrapper and callback), then turns the record it read
\* into STOPPED with end_time and duration set and exit_code, cmd, cmd_name,
\* pid and start_time as read, and writes that record to the file it
\* truncated; a record is STOPPED only if its pid was signalled.
C7_StopSignalsThenPersists ==
  /\ [](\A n \in Names :
          (IsRecord(n) /\ info[n].status = STOPPED) => proc[info[n].pid].st = "killed")
  /\ [][\A k \in Invs : (inv[k].op = "stop" /\ StepOf(k)) =>
          /\ inv[k].pc = "s_read" /\ inv'[k].pc = "s_check" => inv'[k].rec = info[inv[k].name]
          /\ (inv[k].pc = "s_kill" /\ is_pid_running(inv[k].rec.pid)) =>
               /\ proc'[inv[k].rec.pid].st = "killed"
               /\ proc'[inv[k].rec.pid].pc = ""
               /\ UNCHANGED <<info, log>>
               /\ inv'[k].pc = "s_trunc"
               /\ inv'[k].rec.status = STOPPED
               /\ inv'[k].rec.end_time # None /\ inv'[k].rec.duration # None
               /\ inv'[k].rec.exit_code = None /\ inv[k].rec.exit_code = None
               /\ inv'[k].rec.cmd = inv[k].rec.cmd
               /\ inv'[k].rec.cmd_name = inv[k].rec.cmd_name
               /\ inv'[k].rec.pid = inv[k].rec.pid
               /\ inv'[k].rec.start_time = inv[k].rec.start_time
          /\ (inv[k].pc = "s_write" /\ inv[k].fd # "" /\ info[inv[k].fd].kind = "partial") =>
               /\ info'[inv[k].fd] = inv[k].rec
               /\ proc[inv[k].rec.pid].st = "killed"]_vars

C7_Witness ==
  \E k \in Invs :
    /\ inv[k].op = "stop" /\ inv[k].pc = "exit" /\ inv[k].out = "ok"
    /\ IsRecord(inv[k].name) /\ info[inv[k].name].status = STOPPED
    /\ info[inv[k].name].pid = inv[k].pid
    /\ proc[inv[k].pid].st = "killed"

\* C8: with no other process at work, a rename(a, b) that succeeds leaves under
\* b the record that was under a, field for field except cmd_name, which is b,
\* leaves a's log under b, and leaves neither record nor log under a.
C8_RenameRoundTrip ==
  [][\A k \in Invs :
       (inv[k].op = "rename" /\ inv[k].pc = "n_write" /\ StepOf(k)) =>
         /\ inv'[k].out = "ok"
         /\ info'[inv[k].new] = [inv[k].pre EXCEPT !.cmd_name = inv[k].new]
         /\ log'[inv[k].new] = inv[k].prelog
         /\ info'[inv[k].name] = NoFile
         /\ log'[inv[k].name] = 0]_vars

C8_Witness ==
  \E k \in Invs :
    /\ inv[k].op = "rename" /\ inv[k].out = "ok"
    /\ IsRecord(inv[k].new) /\ info[inv[k].new].cmd_name = inv[k].new
    /\ info[inv[k].new].status = DONE
    /\ info[inv[k].name] = NoFile
    /\ log[inv[k].new] = info[inv[k].new].pid

\* C9: a rename whose old name has no record, or whose new name has one, fails
\* and leaves every record and log as it is.
C9_RenameRefuses ==
  [][\A k \in Invs :
       /\ (inv[k].op = "none" /\ inv'[k].op = "rename" /\ info[inv'[k].name].kind = "absent")
            => /\ inv'[k].pc = "exit" /\ inv'[k].out = "NotFound"
               /\ UNCHANGED <<info, log, proc>>
       /\ (inv[k].op = "rename" /\ inv[k].pc = "n_new" /\ StepOf(k)
             /\ info[inv[k].new].kind # "absent")
            => /\ inv'[k].pc = "exit" /\ inv'[k].out = "AlreadyExists"
               /\ UNCHANGED <<info, log, proc>>]_vars

C9_Witness ==
  \E k \in Invs :
    /\ inv[k].op = "rename" /\ inv[k].out = "AlreadyExists" /\ inv[k].name # inv[k].new
    /\ IsRecord(inv[k].name) /\ IsRecord(inv[k].new)

\* C10: a clear that is not confirmed removes nothing, and a turn of the loop
\* of a confirmed clear removes no record and no log of a task that is RUNNING
\* and alive at that moment.
C10_ClearSparesRunning ==
  [][\A k \in Invs :
       /\ (inv[k].op = "none" /\ inv'[k].op = "clear" /\ inv'[k].pc = "exit")
            => UNCHANGED <<info, log>>
       /\ (inv[k].op = "clear" /\ inv[k].pc = "c_del" /\ inv'[k] # inv[k])
            => \A n \in Names :
                 (IsRecord(n) /\ info[n].status = RUNNING /\ is_pid_running(info[n].pid))
                   => info'[n] = info[n] /\ log'[n] = log[n]]_vars

\* the three fields a launch gives a record for good
Launch(rec) == <<rec.pid, rec.cmd, rec.start_time>>

\* C11: a stop, a callback or a rename that overwrites the record under a name
\* puts there a record with the pid, cmd and start_time of the record it
\* overwrites: these fields change only by a clear or a later launch.
C11_LaunchFieldsKept ==
  [][/\ \A k \in Invs :
          (inv[k].op = "stop" /\ inv[k].pc = "s_trunc" /\ StepOf(k) /\ IsRecord(inv[k].name))
            => Launch(inv[k].rec) = Launch(info[inv[k].name])
     /\ \A k \in Invs :
          (inv[k].op = "rename" /\ inv[k].pc = "n_trunc" /\ StepOf(k) /\ IsRecord(inv[k].new))
            => Launch(inv[k].rec) = Launch(info[inv[k].new])
     /\ \A p \in Pids :
          (proc[p].pc = "cb_trunc" /\ StepOfCallback(p) /\ IsRecord(proc[p].name))
            => Launch(proc[p].rec) = Launch(info[proc[p].name])]_vars

\* a record that says RUNNING of a process that is gone
Stale(n) == IsRecord(n) /\ info[n].status = RUNNING /\ ~is_pid_running(info[n].pid)

\* C12: list and info show no record as running whose pid is not running, the
\* scan of a stop without a name yields only names of records that are RUNNING
\* with a running pid, and none of the three changes a record or a log.
C12_QueryReconciled ==
  [][\A k \in Invs :
       /\ (inv[k].op = "none" /\ inv'[k].op = "list")
            => /\ \A n \in Names : Stale(n) => Row(info[n]) \notin inv'[k].shown
               /\ UNCHANGED <<info, log>>
       /\ (inv[k].op = "info" /\ inv[k].pc = "i_read" /\ StepOf(k))
            => /\ \A n \in Names : Stale(n) => Row(info[n]) \notin inv'[k].shown
               /\ UNCHANGED <<info, log>>
       /\ (inv[k].op = "none" /\ inv'[k].op = "stop" /\ inv'[k].pc \in {"s_choose", "s_exists"})
            => /\ \A c \in {inv'[k].name} \cup {inv'[k].names[i] : i \in DOMAIN inv'[k].names} :
                    c # "" => \E n \in Names :
                      /\ IsRecord(n) /\ info[n].cmd_name = c
                      /\ info[n].status = RUNNING /\ is_pid_running(info[n].pid)
               /\ UNCHANGED <<info, log>>]_vars

\* C13: with no other process at work, a run whose name has a RUNNING record
\* with a running pid reports DuplicateTask, has spawned nothing and changes no
\* record, log or process; every other run removes the old record and log
\* before it spawns, spawns one new process, and ends with the record of that
\* process, RUNNING, under the name, and a log of that process.
C13_LaunchRule ==
  [][\A k \in Invs :
       /\ (inv[k].op = "none" /\ inv'[k].op = "run")
            => /\ UNCHANGED <<info, log, proc>>
               /\ LET n == inv'[k].name IN
                  (IsRecord(n) /\ info[n].status = RUNNING /\ is_pid_running(info[n].pid))
                    => inv'[k].pc = "r_read"
       /\ (inv[k].op = "run" /\ StepOf(k)) =>
            LET n == inv[k].name IN
            /\ inv[k].pc = "r_read" => inv'[k].pc = "r_check" /\ UNCHANGED <<info, log, proc>>
            /\ inv[k].pc = "r_check" =>
                 /\ UNCHANGED <<info, log, proc>>
                 /\ inv[k].pid = 0
                 /\ IF info[n].status = RUNNING /\ is_pid_running(info[n].pid)
                    THEN inv'[k].pc = "exit" /\ inv'[k].out = "DuplicateTask"
                    ELSE inv'[k].pc = "r_unlink_info"
            /\ inv[k].pc = "r_spawn" =>
                 /\ info[n] = NoFile /\ log[n] = 0
                 /\ proc[inv'[k].pid].st = "none" /\ proc'[inv'[k].pid].st = "cmd"
                 /\ \A q \in Pids \ {inv'[k].pid} : proc'[q] = proc[q]
            /\ inv[k].pc = "r_write" =>
                 /\ inv'[k].out = "ok"
                 /\ IsRecord(n)' /\ info'[n].status = RUNNING /\ info'[n].pid = inv[k].pid
                 /\ info'[n].cmd_name = n /\ info'[n].cmd = inv[k].cmd
                 /\ log'[n] = inv[k].pid
                 /\ proc[inv[k].pid].name = n /\ is_pid_running(inv[k].pid)
            /\ inv'[k].pc = "exit" => inv'[k].out \in {"ok", "DuplicateTask"}]_vars

C13_Witness ==
  \E k \in Invs :
    /\ inv[k].op = "run" /\ inv[k].pc = "exit" /\ inv[k].out = "ok" /\ inv[k].pid = 2
    /\ proc[1].name = inv[k].name /\ ~is_pid_running(1)
    /\ IsRecord(inv[k].name) /\ info[inv[k].name].pid = 2 /\ info[inv[k].name].status = RUNNING

\* C14: a callback that finds no record under its name (and is not killed at
\* that moment) reports RecordMissing and returns, leaving every record and log
\* as it is; a wrapper whose callback has returned runs no callback again.
C14_CallbackRecordMissing ==
  [][\A p \in Pids :
       /\ (proc[p].pc = "cb_exists" /\ StepOfCallback(p) /\ proc'[p].st # "killed"
             /\ info[proc[p].name].kind = "absent")
            => /\ proc'[p].out = "RecordMissing"
               /\ proc'[p].pc = "" /\ proc'[p].st = "post"
               /\ UNCHANGED <<info, log>>
       /\ (proc[p].st \in {"post", "exited", "killed"})
            => proc'[p].pc = "" /\ proc'[p].st \in {"post", "exited", "killed"}]_vars

C14_Witness ==
  \E p \in Pids :
    /\ proc[p].st = "post" /\ proc[p].out = "RecordMissing"
    /\ info[proc[p].name].kind = "absent"

\* C15: a stop that reaches the signal when the pid of its record is gone
\* signals nothing and goes on to write the record, with no error.
C15_StopToleratesDeadPid ==
  [][\A k \in Invs :
       (inv[k].op = "stop" /\ inv[k].pc = "s_kill" /\ StepOf(k)
          /\ ~is_pid_running(inv[k].rec.pid))
         => /\ proc' = proc
            /\ inv'[k].pc = "s_trunc"
            /\ inv'[k].out = ""]_vars

\* C16: at the prompt of a stop without a name, which lists k > 1 tasks, an
\* input that is a number i in 1..k selects the i-th task listed, and every
\* other input is rejected as InvalidSelection, with no record, log or process
\* touched.
C16_StopSelection ==
  [][\A k \in Invs, choice \in Inputs :
       (inv[k].op = "stop" /\ inv[k].pc = "s_choose" /\ StopChoose(k, choice)) =>
         IF choice # None /\ choice[1] \in 1..Len(inv[k].names)
         THEN inv'[k].pc = "s_exists" /\ inv'[k].name = inv[k].names[choice[1]]
         ELSE /\ inv'[k].pc = "exit" /\ inv'[k].out = "InvalidSelection"
              /\ UNCHANGED <<info, log, proc>>]_vars

\* C17: in every record that is DONE or STOPPED, duration is end_time minus
\* start_time of that record, and is not negative.
C17_Duration ==
  \A n \in Names :
    (IsRecord(n) /\ info[n].status \in {DONE, STOPPED}) =>
      /\ info[n].end_time # None /\ info[n].duration # None
      /\ info[n].duration[1] = Strptime(info[n].end_time[1]) - Strptime(info[n].start_time)
      /\ info[n].duration[1] >= 0

C17_Witness ==
  /\ \E n \in Names : IsRecord(n) /\ info[n].status = DONE /\ info[n].duration = Some(1)
  /\ \E n \in Names : IsRecord(n) /\ info[n].status = STOPPED /\ info[n].duration = Some(0)

\* C18: the record that the callback run by the wrapper of process p marks
\* DONE and writes is a record with pid p.
C18_CallbackOwnRecord ==
  [][\A p \in Pids :
       (proc[p].pc = "cb_write" /\ StepOfCallback(p) /\ proc'[p].out = "ok")
         => proc[p].rec.pid = p /\ proc[p].rec.exit_code = Some(proc[p].code)]_vars

\* C19: when nothing is left at work, a record that a rename has put under
\* another name than the one its process was launched with, of a process whose
\* command has exited with code c, is DONE with exit_code c.
C19_RenamedTaskCompletes ==
  Quiescent =>
    \A p \in Pids, n \in Names :
      (/\ proc[p].st = "exited" /\ proc[p].name # n
       /\ IsRecord(n) /\ info[n].pid = p /\ info[n].cmd_name = n)
        => info[n].status = DONE /\ info[n].exit_code = Some(proc[p].code)

\* C20: no step of a stop or of a callback makes a record file under a name
\* that has none, and no two record files hold the pid of one process.
C20_NoRecreation ==
  /\ [][\A n \in Names :
          (info[n].kind = "absent" /\ info'[n].kind # "absent")
            => /\ \A k \in Invs : inv[k].op = "stop" => ~StepOf(k)
               /\ \A p \in Pids : ~StepOfCallback(p)]_vars
  /\ [](\A n \in Names, m \in Names :
          (n # m /\ IsRecord(n) /\ IsRecord(m)) => info[n].pid # info[m].pid)
====
